---------------------------- MODULE Spec2Model ----------------------------
(***************************************************************************)
(* Model of the student-performance dashboard (src/dashboard.py) and of    *)
(* the training script that fixes its feature list (src/research.py).      *)
(*                                                                         *)
(* One behaviour is one run of the dashboard script for one request: load  *)
(* the model, read the uploaded CSV, align it to the training features,    *)
(* predict, classify, show the dashboard, offer the CSV, and, when the     *)
(* report button was pressed, render the PDF report.                       *)
(*                                                                         *)
(* Conventions.  Grades are fixed-point: a "Predicted Grade" is an integer *)
(* number of tenths (10.0 is 100), a raw regressor output an integer       *)
(* number of hundredths.  A table is column-oriented like a DataFrame:     *)
(* [nrows, columns], each column [name, dtype, vals].  Column names need   *)
(* not be unique, exactly as in pandas.  A CSV file is text: a delimiter,  *)
(* a header line and data lines, each line a sequence of fields.           *)
(***************************************************************************)
EXTENDS Integers, Sequences, FiniteSets, TLC

VARIABLES
    pc,                 \* position of the script run
    model_files,        \* environment: "ok" or "missing" (models/*.joblib)
    uploaded_file,      \* environment: the uploaded file, or NoFile
    report_clicked,     \* environment: the report button's value in this run
    training_features,  \* dashboard.py global, <<>> until loaded
    data,               \* dashboard.py global `data`
    stats,              \* avg_grade, total_students, risk_count, excellent_count
    csv,                \* bytes handed to the CSV download button
    pdf,                \* the FPDF document being built
    ui                  \* elements shown to the user, in order

vars == <<pc, model_files, uploaded_file, report_clicked, training_features,
          data, stats, csv, pdf, ui>>

(***************************************************************************)
(* Bounds                                                                  *)
(***************************************************************************)
MaxRows == 2

(***************************************************************************)
(* Text                                                                    *)
(***************************************************************************)
Digit(d) == <<"0", "1", "2", "3", "4", "5", "6", "7", "8", "9">>[d + 1]

RECURSIVE ToText(_)
\* str(n) of a non-negative integer
ToText(n) == IF n < 10 THEN Digit(n) ELSE ToText(n \div 10) \o Digit(n % 10)

\* the integers whose text can occur in a cell of the model's files
NumberRange == 0..20

NumericText == {ToText(n) : n \in NumberRange}

\* int(s), the inverse of ToText on NumericText
ParseInt(s) == CHOOSE n \in NumberRange : ToText(n) = s

RECURSIVE Join(_, _)
\* sep.join(fields)
Join(fields, sep) ==
    IF Len(fields) = 0 THEN ""
    ELSE IF Len(fields) = 1 THEN fields[1]
    ELSE fields[1] \o sep \o Join(Tail(fields), sep)

\* repr of a float held as tenths: 99 is "9.9", 100 is "10.0"
FormatTenths(t) == ToText(t \div 10) \o "." \o Digit(t % 10)

\* f"{x:.2f}" of a float held as hundredths
Format2f(h) == ToText(h \div 100) \o "." \o Digit((h \div 10) % 10) \o Digit(h % 10)

RECURSIVE SeqSum(_)
SeqSum(s) == IF Len(s) = 0 THEN 0 ELSE s[1] + SeqSum(Tail(s))

Range(s) == {s[i] : i \in 1..Len(s)}

\* the sub-sequence of s at the indices in I, in order
SelectIdx(s, I) ==
    LET F[i \in 0..Len(s)] ==
            IF i = 0 THEN <<>>
            ELSE IF i \in I THEN Append(F[i - 1], s[i]) ELSE F[i - 1]
    IN F[Len(s)]

RECURSIVE Flatten(_)
Flatten(ss) == IF Len(ss) = 0 THEN <<>> ELSE ss[1] \o Flatten(Tail(ss))


(***************************************************************************)
(* String order.  Python compares strings character by character; the      *)
(* model's cell texts are built from the atoms below, joined by ",", and   *)
(* "," sorts before every digit and letter, so two texts compare as their  *)
(* atom sequences do.                                                      *)
(***************************************************************************)
\* the atomic cell texts, in Python's string order
SortedAtoms == <<"1", "10", "15", "17", "F", "M">>

AtomRank(a) == CHOOSE k \in 1..Len(SortedAtoms) : SortedAtoms[k] = a

\* the columns an upload may carry, in the order the file lists them
UploadColumns == <<"sex", "age", "G3", "sex_M", "G1">>

\* the texts a cell of each column may hold
CellValues(c) ==
    CASE c = "sex" -> {"F", "M"}
      [] c = "age" -> {"17"}
      [] c = "G3" -> {"10"}
      [] c = "sex_M" -> {"1"}
      [] c = "G1" -> {"15"}

\* every header: the sub-sequences of UploadColumns (<<>> is the empty file)
Headers ==
    {SelectIdx(UploadColumns, S) :
        S \in SUBSET (1..Len(UploadColumns))}

\* the data lines a file with this header may hold
RowsFor(header) ==
    {r \in [1..Len(header) -> UNION {CellValues(c) : c \in Range(UploadColumns)}] :
        \A j \in 1..Len(header) : r[j] \in CellValues(header[j])}

AllRows == UNION {RowsFor(h) : h \in Headers}

\* the atoms a cell text is made of (a text holding "," is a joined line)
AtomsOf(s) ==
    IF s \in Range(SortedAtoms) THEN <<s>>
    ELSE CHOOSE q \in AllRows : Join(q, ",") = s

RECURSIVE LexLess(_, _)
LexLess(a, b) ==
    IF Len(b) = 0 THEN FALSE
    ELSE IF Len(a) = 0 THEN TRUE
    ELSE IF a[1] # b[1] THEN a[1] < b[1]
    ELSE LexLess(Tail(a), Tail(b))

\* a < b on Python strings
TextLess(a, b) ==
    LexLess([k \in 1..Len(AtomsOf(a)) |-> AtomRank(AtomsOf(a)[k])],
            [k \in 1..Len(AtomsOf(b)) |-> AtomRank(AtomsOf(b)[k])])

RECURSIVE SortedTexts(_)
\* sorted(S) for a set of strings
SortedTexts(S) ==
    IF S = {} THEN <<>>
    ELSE LET m == CHOOSE x \in S : \A y \in S \ {x} : TextLess(x, y)
         IN <<m>> \o SortedTexts(S \ {m})

(***************************************************************************)
(* Files and tables                                                        *)
(***************************************************************************)
NoFile == [present |-> FALSE, delim |-> ";", header |-> <<>>, lines |-> <<>>]

\* the files a user may upload: every header, up to MaxRows data lines,
\* written with ";" or, when it has columns to separate, with ","; a header
\* of no columns is an empty file
Files ==
    UNION {{[present |-> TRUE, delim |-> d, header |-> h, lines |-> ls] :
               d \in IF Len(h) <= 1 THEN {";"} ELSE {";", ","},
               ls \in UNION {[1..n -> RowsFor(h)] :
                                n \in 0..(IF Len(h) = 0 THEN 0 ELSE MaxRows)}} :
           h \in Headers}

EmptyTable == [nrows |-> 0, columns |-> <<>>]

ColumnNames(t) == [k \in 1..Len(t.columns) |-> t.columns[k].name]

\* the fields the parser sees in one line of a file written with `delim`
SplitLine(line, delim, sep) ==
    IF delim = sep \/ Len(line) <= 1 THEN line ELSE <<Join(line, delim)>>

\* pd.read_csv raises (EmptyDataError) on a file with no columns to parse
ReadCsvRaises(file) == Len(file.header) = 0

\* pd.read_csv(file, sep=sep): a column of numerals is int64, any other
\* column, and every column of a table without rows, is object
read_csv(file, sep) ==
    LET names == SplitLine(file.header, file.delim, sep)
        n == Len(file.lines)
        text(i, j) == SplitLine(file.lines[i], file.delim, sep)[j]
        numeric(j) == n > 0 /\ \A i \in 1..n : text(i, j) \in NumericText
    IN [nrows |-> n,
        columns |->
            [j \in 1..Len(names) |->
                [name |-> names[j],
                 dtype |-> IF numeric(j) THEN "int64" ELSE "object",
                 vals |-> [i \in 1..n |->
                              IF numeric(j) THEN ParseInt(text(i, j))
                              ELSE text(i, j)]]]]

\* data.drop(name, axis=1)
drop(t, name) ==
    [t EXCEPT !.columns =
        SelectIdx(t.columns, {k \in 1..Len(t.columns) : t.columns[k].name # name})]

\* the indicator columns of one categorical column: one per level in sorted
\* order, the first level dropped (drop_first=True); none for a column with
\* no level or one level.  An indicator is held as 1 or 0 (dtype bool).
Dummies(c) ==
    LET levels == SortedTexts(Range(c.vals))
    IN [k \in 1..(IF Len(levels) = 0 THEN 0 ELSE Len(levels) - 1) |->
           [name |-> c.name \o "_" \o levels[k + 1],
            dtype |-> "bool",
            vals |-> [i \in 1..Len(c.vals) |->
                         IF c.vals[i] = levels[k + 1] THEN 1 ELSE 0]]]

\* pd.get_dummies(t, columns=<the object columns>, drop_first=True): the
\* other columns first, then each categorical column's indicators
get_dummies(t) ==
    LET objs == {k \in 1..Len(t.columns) : t.columns[k].dtype = "object"}
        kept == SelectIdx(t.columns, (1..Len(t.columns)) \ objs)
        cats == SelectIdx(t.columns, objs)
    IN [t EXCEPT !.columns =
           kept \o Flatten([k \in 1..Len(cats) |-> Dummies(cats[k])])]

\* data[names]: for each name in turn, every column carrying that label
SelectColumns(t, names) ==
    [t EXCEPT !.columns =
        Flatten([k \in 1..Len(names) |->
            SelectIdx(t.columns,
                      {j \in 1..Len(t.columns) : t.columns[j].name = names[k]})])]

\* for col in missing_cols: data[col] = 0.  The set is iterated in no fixed
\* order; the columns are appended here in feature order, and the selection
\* that follows makes the order immaterial.
ZeroFill(t, names) ==
    LET missing == SelectIdx(names, {k \in 1..Len(names) :
                                         names[k] \notin Range(ColumnNames(t))})
    IN [t EXCEPT !.columns =
           t.columns \o [k \in 1..Len(missing) |->
               [name |-> missing[k], dtype |-> "int64",
                vals |-> [i \in 1..t.nrows |-> 0]]]]

(***************************************************************************)
(* Training (research.py)                                                  *)
(***************************************************************************)
\* student-mat.csv, cut down to the columns the model keeps
TrainingFile ==
    [present |-> TRUE, delim |-> ";", header |-> <<"sex", "G1", "G3">>,
     lines |-> << <<"F", "15", "10">>, <<"M", "15", "10">> >>]

\* X_train.columns.tolist()
TrainedFeatures ==
    ColumnNames(drop(get_dummies(read_csv(TrainingFile, ";")), "G3"))


(***************************************************************************)
(* Prediction and risk classification (dashboard.py)                       *)
(***************************************************************************)
\* raw outputs of the regressor, in hundredths (9.90, 9.96, 13.94, 13.96)
PredRaw == {990, 996, 1394, 1396}

\* numpy round(1): hundredths to tenths, ties to the even tenth
Round1(h) ==
    LET q == h \div 10
        r == h % 10
    IN IF r < 5 THEN q
       ELSE IF r > 5 THEN q + 1
       ELSE IF q % 2 = 0 THEN q ELSE q + 1

\* rf_model.predict validates its input: it raises on a table with no rows
\* and on a table whose columns are not the features it was fitted on
PredictRaises(t, features) == t.nrows = 0 \/ ColumnNames(t) # features

\* risk_label with the lower threshold made inclusive (x <= 10)
risk_label_InclusiveBound(x) ==
    IF x <= 100 THEN "At Risk"
    ELSE IF x < 140 THEN "Average"
    ELSE "Excellent"

\* risk_label(x), x in tenths
risk_label(x) ==
    IF x < 100 THEN "At Risk"
    ELSE IF x < 140 THEN "Average"
    ELSE "Excellent"

\* explain(row), g in tenths
explain(g) ==
    IF g < 100
    THEN "High failure risk. Score " \o FormatTenths(g)
             \o "/20. Needs urgent academic support."
    ELSE IF g < 140
    THEN "Average performance (" \o FormatTenths(g)
             \o "/20). Can improve with guidance."
    ELSE "Excellent performance (" \o FormatTenths(g)
             \o "/20). Likely top performer."

HasColumn(t, name) == name \in Range(ColumnNames(t))

\* data[name] of a table in which the label is unique
Column(t, name) ==
    t.columns[CHOOSE k \in 1..Len(t.columns) : t.columns[k].name = name]

\* data[name] = vals: replaces the column when the label exists, else appends
SetColumn(t, name, dtype, vals) ==
    LET col == [name |-> name, dtype |-> dtype, vals |-> vals]
    IN IF HasColumn(t, name)
       THEN [t EXCEPT !.columns =
                [k \in 1..Len(t.columns) |->
                    IF t.columns[k].name = name THEN col ELSE t.columns[k]]]
       ELSE [t EXCEPT !.columns = Append(t.columns, col)]

\* the text to_csv writes for one cell
CellText(c, i) ==
    CASE c.dtype = "int64" -> ToText(c.vals[i])
      [] c.dtype = "bool" -> IF c.vals[i] = 1 THEN "True" ELSE "False"
      [] c.dtype = "float64" -> FormatTenths(c.vals[i])
      [] OTHER -> c.vals[i]

\* data.to_csv(index=False)
to_csv(t) ==
    [present |-> TRUE, delim |-> ",", header |-> ColumnNames(t),
     lines |-> [i \in 1..t.nrows |->
                   [k \in 1..Len(t.columns) |-> CellText(t.columns[k], i)]]]


(***************************************************************************)
(* The dashboard script (dashboard.py), one run                            *)
(***************************************************************************)
Show(kind, text) == Append(ui, [kind |-> kind, text |-> text])

NoStats ==
    [avg_grade |-> [num |-> 0, den |-> 1], total_students |-> 0,
     risk_count |-> 0, excellent_count |-> 0]

NoPdf == [header |-> FALSE, summary |-> <<>>, blocks |-> <<>>, output |-> FALSE]

Init ==
    /\ pc = "load"
    /\ model_files \in {"ok", "missing"}
    /\ uploaded_file \in Files \cup {NoFile}
    /\ report_clicked \in BOOLEAN
    /\ training_features = <<>>
    /\ data = EmptyTable
    /\ stats = NoStats
    /\ csv = NoFile
    /\ pdf = NoPdf
    /\ ui = <<>>

\* load_model(): the two joblib files load, or st.error and st.stop()
LoadModel ==
    /\ pc = "load"
    /\ IF model_files = "ok"
       THEN /\ training_features' = TrainedFeatures
            /\ pc' = "upload"
            /\ ui' = ui
       ELSE /\ ui' = Show("error", "Model files missing or corrupted.")
            /\ pc' = "stopped"
            /\ training_features' = training_features
    /\ UNCHANGED <<model_files, uploaded_file, report_clicked, data, stats, csv, pdf>>

\* if uploaded_file: ... else: st.info(...)
CheckUpload ==
    /\ pc = "upload"
    /\ IF uploaded_file.present
       THEN /\ ui' = Show("success", "AI analysis complete!")
            /\ pc' = "read"
       ELSE /\ ui' = Show("info", "Upload a student CSV file to activate the AI system.")
            /\ pc' = "done"
    /\ UNCHANGED <<model_files, uploaded_file, report_clicked, training_features,
                   data, stats, csv, pdf>>

\* ReadData with st.stop() left out of the except branch
ReadData_NoStop ==
    /\ pc = "read"
    /\ IF ReadCsvRaises(uploaded_file)
       THEN /\ ui' = Show("error", "Error reading CSV file.")
            /\ data' = data
       ELSE /\ data' = read_csv(uploaded_file, ";")
            /\ ui' = ui
    /\ pc' = "align"
    /\ UNCHANGED <<model_files, uploaded_file, report_clicked, training_features,
                   stats, csv, pdf>>

\* try: data = pd.read_csv(uploaded_file, sep=';') except: st.error; st.stop()
ReadData ==
    /\ pc = "read"
    /\ IF ReadCsvRaises(uploaded_file)
       THEN /\ ui' = Show("error", "Error reading CSV file.")
            /\ pc' = "stopped"
            /\ data' = data
       ELSE /\ data' = read_csv(uploaded_file, ";")
            /\ pc' = "align"
            /\ ui' = ui
    /\ UNCHANGED <<model_files, uploaded_file, report_clicked, training_features,
                   stats, csv, pdf>>

\* the alignment block: drop G3, one-hot encode, zero-fill, select
AlignedTable(t, features) ==
    LET noTarget == IF HasColumn(t, "G3") THEN drop(t, "G3") ELSE t
        encoded == get_dummies(noTarget)
    IN SelectColumns(ZeroFill(encoded, features), features)

Align ==
    /\ pc = "align"
    /\ data' = AlignedTable(data, training_features)
    /\ pc' = "predict"
    /\ UNCHANGED <<model_files, uploaded_file, report_clicked, training_features,
                   stats, csv, pdf, ui>>

\* predictions = rf_model.predict(data); data["Predicted Grade"] = ...round(1)
\* An exception here is not caught: the run ends showing the traceback.
Predict ==
    /\ pc = "predict"
    /\ IF PredictRaises(data, training_features)
       THEN /\ ui' = Show("exception", "ValueError")
            /\ pc' = "crashed"
            /\ data' = data
       ELSE /\ \E raw \in [1..data.nrows -> PredRaw] :
                   data' = SetColumn(data, "Predicted Grade", "float64",
                                     [i \in 1..data.nrows |-> Round1(raw[i])])
            /\ pc' = "classify"
            /\ ui' = ui
    /\ UNCHANGED <<model_files, uploaded_file, report_clicked, training_features,
                   stats, csv, pdf>>

\* data["Risk Level"] = ...apply(risk_label); data["AI Comment"] = ...apply(explain)
Classified(t) ==
    LET g == Column(t, "Predicted Grade").vals
        labelled == SetColumn(t, "Risk Level", "object",
                              [i \in 1..t.nrows |-> risk_label(g[i])])
    IN SetColumn(labelled, "AI Comment", "object",
                 [i \in 1..t.nrows |-> explain(g[i])])

Classify ==
    /\ pc = "classify"
    /\ data' = Classified(data)
    /\ pc' = "dashboard"
    /\ UNCHANGED <<model_files, uploaded_file, report_clicked, training_features,
                   stats, csv, pdf, ui>>

CountOf(vals, v) == Cardinality({i \in 1..Len(vals) : vals[i] = v})

\* Summary with excellent_count counting every row that is not At Risk
Summary_ExcellentIsNotAtRisk(t) ==
    [avg_grade |-> [num |-> SeqSum(Column(t, "Predicted Grade").vals),
                    den |-> t.nrows],
     total_students |-> t.nrows,
     risk_count |-> CountOf(Column(t, "Risk Level").vals, "At Risk"),
     excellent_count |-> t.nrows - CountOf(Column(t, "Risk Level").vals, "At Risk")]

\* avg_grade, total_students, risk_count, excellent_count
Summary(t) ==
    [avg_grade |-> [num |-> SeqSum(Column(t, "Predicted Grade").vals),
                    den |-> t.nrows],
     total_students |-> t.nrows,
     risk_count |-> CountOf(Column(t, "Risk Level").vals, "At Risk"),
     excellent_count |-> CountOf(Column(t, "Risk Level").vals, "Excellent")]

\* the executive dashboard and the insight messages
Dashboard ==
    /\ pc = "dashboard"
    /\ stats' = Summary(data)
    /\ LET avg == stats'.avg_grade
           first == IF avg.num < 100 * avg.den
                    THEN Show("error", "Overall class performance is poor. Immediate intervention required.")
                    ELSE IF avg.num < 140 * avg.den
                    THEN Show("warning", "Class performance is average. Improvement plan recommended.")
                    ELSE Show("success", "Class performing excellently overall.")
       IN ui' = IF stats'.risk_count * 10 > stats'.total_students * 4
                THEN Append(first, [kind |-> "error",
                                    text |-> "High number of failing students detected!"])
                ELSE first
    /\ pc' = "csv"
    /\ UNCHANGED <<model_files, uploaded_file, report_clicked, training_features,
                   data, csv, pdf>>

\* csv = data.to_csv(index=False); st.download_button(...); if st.button(...)
DownloadCsv ==
    /\ pc = "csv"
    /\ csv' = to_csv(data)
    /\ ui' = Show("download", "AI_updated_students.csv")
    /\ pc' = IF report_clicked THEN "pdf_header" ELSE "done"
    /\ UNCHANGED <<model_files, uploaded_file, report_clicked, training_features,
                   data, stats, pdf>>


(***************************************************************************)
(* The PDF report (dashboard.py, the try block under the report button)    *)
(***************************************************************************)
\* the float num/den (tenths) in hundredths, rounded to nearest, ties to even
MeanHundredths(avg) ==
    LET q == (avg.num * 10) \div avg.den
        r == (avg.num * 10) % avg.den
    IN IF 2 * r < avg.den THEN q
       ELSE IF 2 * r > avg.den THEN q + 1
       ELSE IF q % 2 = 0 THEN q ELSE q + 1

\* the four summary cells
SummaryLines(st) ==
    << [label |-> "Total Students", value |-> ToText(st.total_students)],
       [label |-> "Class Average", value |-> Format2f(MeanHundredths(st.avg_grade)) \o "/20"],
       [label |-> "At Risk Students", value |-> ToText(st.risk_count)],
       [label |-> "Excellent Students", value |-> ToText(st.excellent_count)] >>

\* the multi_cell of row i (iterrows index i - 1)
RecordBlock(t, i) ==
    [student |-> "Student " \o ToText(i),
     grade |-> "Predicted Grade: " \o FormatTenths(Column(t, "Predicted Grade").vals[i]) \o "/20",
     risk |-> "Risk Level: " \o Column(t, "Risk Level").vals[i],
     comment |-> Column(t, "AI Comment").vals[i]]

\* pdf = FPDF(); add_page; title cell
PdfHeader ==
    /\ pc = "pdf_header"
    /\ pdf' = [pdf EXCEPT !.header = TRUE]
    /\ pc' = "pdf_summary"
    /\ UNCHANGED <<model_files, uploaded_file, report_clicked, training_features,
                   data, stats, csv, ui>>

PdfSummary ==
    /\ pc = "pdf_summary"
    /\ pdf' = [pdf EXCEPT !.summary = SummaryLines(stats)]
    /\ pc' = "pdf_records"
    /\ UNCHANGED <<model_files, uploaded_file, report_clicked, training_features,
                   data, stats, csv, ui>>

\* one iteration of: for i, row in data.iterrows(): pdf.multi_cell(...)
PdfRecord ==
    /\ pc = "pdf_records"
    /\ Len(pdf.blocks) < data.nrows
    /\ pdf' = [pdf EXCEPT !.blocks = Append(@, RecordBlock(data, Len(@) + 1))]
    /\ UNCHANGED <<pc, model_files, uploaded_file, report_clicked, training_features,
                   data, stats, csv, ui>>

\* after the loop: pdf.output(...) and the PDF download button
PdfOutput ==
    /\ pc = "pdf_records"
    /\ Len(pdf.blocks) = data.nrows
    /\ pdf' = [pdf EXCEPT !.output = TRUE]
    /\ ui' = Show("download", "AI_student_report.pdf")
    /\ pc' = "done"
    /\ UNCHANGED <<model_files, uploaded_file, report_clicked, training_features,
                   data, stats, csv>>

\* PdfFail with the download button placed after the try block, so that it
\* is reached whether or not rendering raised
PdfFail_OffersPartial ==
    /\ pc \in {"pdf_header", "pdf_summary", "pdf_records"}
    /\ ui' = Append(Show("error", "PDF generation failed."),
                    [kind |-> "download", text |-> "AI_student_report.pdf"])
    /\ pc' = "done"
    /\ UNCHANGED <<model_files, uploaded_file, report_clicked, training_features,
                   data, stats, csv, pdf>>

\* except Exception: st.error(...).  Any call of the try block may raise (a
\* character the font cannot encode, pdf.output returning bytes that have
\* no encode method); the document built so far is dropped with the run.
PdfFail ==
    /\ pc \in {"pdf_header", "pdf_summary", "pdf_records"}
    /\ ui' = Show("error", "PDF generation failed.")
    /\ pc' = "done"
    /\ UNCHANGED <<model_files, uploaded_file, report_clicked, training_features,
                   data, stats, csv, pdf>>

Next ==
    \/ LoadModel
    \/ CheckUpload
    \/ ReadData
    \/ Align
    \/ Predict
    \/ Classify
    \/ Dashboard
    \/ DownloadCsv
    \/ PdfHeader
    \/ PdfSummary
    \/ PdfRecord
    \/ PdfOutput
    \/ PdfFail

Spec == Init /\ [][Next]_vars


(***************************************************************************)
(* Properties                                                              *)
(***************************************************************************)
\* the uploaded table as the dashboard parsed it
Parsed == read_csv(uploaded_file, ";")

\* the upload was read as a table (the read neither raised nor was skipped)
UploadParsed == uploaded_file.present /\ ~ReadCsvRaises(uploaded_file)

\* `data` is the aligned table, as handed to the predictor
AtPredictor == pc = "predict"

RiskTiers == {"At Risk", "Average", "Excellent"}

Shown(kind, text) == \E k \in 1..Len(ui) : ui[k] = [kind |-> kind, text |-> text]

\* the columns of t labelled name
Labelled(t, name) == {k \in 1..Len(t.columns) : t.columns[k].name = name}

\* the trained one-hot features "col_level" of a categorical upload column
LevelsTrainedFor(c) ==
    {l \in Range(SortedAtoms) : c.name \o "_" \o l \in Range(training_features)}

CategoricalColumns(t) == {k \in 1..Len(t.columns) : t.columns[k].dtype = "object"}

\* C1: after alignment the table handed to the predictor has exactly the
\* training features as its column sequence: same names, same order, no
\* extras, no omissions, whatever columns the upload carries.
C1_AlignedColumnsAreFeatures ==
    AtPredictor => ColumnNames(data) = training_features

\* C2: the risk tier of every row is decided by that row's predicted grade
\* alone, with fixed thresholds: At Risk below 10, Average from 10 up to but
\* not including 14, Excellent from 14; 9.9 is At Risk, 10.0 and 13.9 are
\* Average, 14.0 is Excellent, and each grade has exactly one tier.
C2_RiskTierThresholds ==
    HasColumn(data, "Risk Level") =>
        \A i \in 1..data.nrows :
            LET g == Column(data, "Predicted Grade").vals[i]
                r == Column(data, "Risk Level").vals[i]
            IN /\ r \in RiskTiers
               /\ r = "At Risk" <=> g < 100
               /\ r = "Average" <=> (g >= 100 /\ g < 140)
               /\ r = "Excellent" <=> g >= 140
               /\ g = 99 => r = "At Risk"
               /\ g \in {100, 139} => r = "Average"
               /\ g = 140 => r = "Excellent"

\* a classified upload holding a row at 9.9 and a row at 10.0
C2_Witness ==
    /\ HasColumn(data, "Risk Level")
    /\ \E i, j \in 1..data.nrows :
          /\ Column(data, "Predicted Grade").vals[i] = 99
          /\ Column(data, "Risk Level").vals[i] = "At Risk"
          /\ Column(data, "Predicted Grade").vals[j] = 100
          /\ Column(data, "Risk Level").vals[j] = "Average"

\* C3: when a trained categorical level never occurs in the upload's column,
\* alignment still completes and the level's one-hot column is present in
\* the aligned table with 0 on every row.
C3_UnseenLevelIsZero ==
    (AtPredictor /\ UploadParsed) =>
        \A k \in CategoricalColumns(Parsed) :
            \A l \in LevelsTrainedFor(Parsed.columns[k]) :
                l \notin Range(Parsed.columns[k].vals) =>
                    LET f == Parsed.columns[k].name \o "_" \o l
                    IN /\ Labelled(data, f) # {}
                       /\ \A j \in Labelled(data, f) :
                              \A i \in 1..data.nrows : data.columns[j].vals[i] = 0

\* an upload of a header line and no data line
EmptyUpload == UploadParsed /\ Len(uploaded_file.lines) = 0

\* C4: with the model loaded, an upload with a header and no data rows is
\* processed without an error state: the run neither stops on a read error
\* nor ends in an uncaught exception.
C4_EmptyUploadNoError ==
    (EmptyUpload /\ model_files = "ok") =>
        /\ pc \notin {"crashed", "stopped"}
        /\ \A k \in 1..Len(ui) : ui[k].kind # "exception"

\* a comma-separated upload of two or more columns with data, read with sep=";"
WrongDelimiter ==
    /\ uploaded_file.present
    /\ uploaded_file.delim = ","
    /\ Len(uploaded_file.header) >= 2
    /\ Len(uploaded_file.lines) >= 1

\* C5: a file written with the wrong delimiter ends the run with the read
\* error, and no prediction is ever made from it.
C5_WrongDelimiterFailsFast ==
    (WrongDelimiter /\ model_files = "ok") =>
        /\ ~HasColumn(data, "Predicted Grade")
        /\ pc \in {"done", "stopped", "crashed"} =>
               (pc = "stopped" /\ Shown("error", "Error reading CSV file."))

\* C6: the exported CSV has one line per uploaded row, and holds every
\* column of the uploaded table with its original text, plus the three
\* derived columns.
C6_CsvKeepsUploadedColumns ==
    csv.present =>
        /\ Len(csv.lines) = Parsed.nrows
        /\ {"Predicted Grade", "Risk Level", "AI Comment"} \subseteq Range(csv.header)
        /\ \A k \in 1..Len(Parsed.columns) :
              \E j \in 1..Len(csv.header) :
                  /\ csv.header[j] = Parsed.columns[k].name
                  /\ \A i \in 1..Parsed.nrows :
                        csv.lines[i][j] = CellText(Parsed.columns[k], i)


PdfOffered == Shown("download", "AI_student_report.pdf")

PdfErrorShown == Shown("error", "PDF generation failed.")

\* the report document is complete: title, summary and one block per row
PdfComplete ==
    /\ pdf.header
    /\ Len(pdf.summary) > 0
    /\ Len(pdf.blocks) = data.nrows
    /\ pdf.output

\* C7: when rendering the report fails, in the title, the summary or any
\* record block, the failure is shown and no report download is offered; a
\* report download is offered only for a completely rendered report.
C7_NoPartialReport ==
    /\ PdfErrorShown => ~PdfOffered
    /\ PdfOffered => PdfComplete
    /\ (report_clicked /\ pc = "done" /\ csv.present) => (PdfErrorShown \/ PdfOffered)

\* rendering failed after the first record block was written
C7_Witness ==
    /\ PdfErrorShown
    /\ ~PdfOffered
    /\ Len(pdf.blocks) >= 1
    /\ Len(pdf.blocks) < data.nrows

\* the number a summary line states, if the summary has a line so labelled
SummaryValue(label) ==
    {pdf.summary[k].value : k \in {j \in 1..Len(pdf.summary) : pdf.summary[j].label = label}}

TierCount(tier) == CountOf(Column(data, "Risk Level").vals, tier)

\* the summary's label for the count of a tier
TierLabel(tier) == tier \o " Students"

\* C8 as stated: the report's summary gives the row count, the mean and a
\* count for each of the three tiers, the tier counts sum to the row
\* count, and a finished report has exactly one record block per row.
C8_SummaryCountsEveryTier ==
    Len(pdf.summary) > 0 =>
        /\ SummaryValue("Total Students") = {ToText(data.nrows)}
        /\ SummaryValue("Class Average") # {}
        /\ \A tier \in RiskTiers : SummaryValue(TierLabel(tier)) = {ToText(TierCount(tier))}
        /\ pdf.output => Len(pdf.blocks) = data.nrows

\* C8 amended: the summary gives the row count, the mean and the counts of
\* the At Risk and Excellent tiers only; it has no line for the Average
\* tier, so the stated counts sum to the row count less the Average rows;
\* a finished report has exactly one record block per row, in row order.
C8_SummaryCountsTwoTiers ==
    Len(pdf.summary) > 0 =>
        /\ SummaryValue("Total Students") = {ToText(data.nrows)}
        /\ SummaryValue("Class Average") =
               {Format2f(MeanHundredths(
                    [num |-> SeqSum(Column(data, "Predicted Grade").vals),
                     den |-> data.nrows])) \o "/20"}
        /\ SummaryValue(TierLabel("At Risk")) = {ToText(TierCount("At Risk"))}
        /\ SummaryValue(TierLabel("Excellent")) = {ToText(TierCount("Excellent"))}
        /\ SummaryValue(TierLabel("Average")) = {}
        /\ TierCount("At Risk") + TierCount("Excellent")
               = data.nrows - TierCount("Average")
        /\ pdf.output =>
               /\ Len(pdf.blocks) = data.nrows
               /\ \A i \in 1..data.nrows :
                     /\ pdf.blocks[i].student = "Student " \o ToText(i)
                     /\ pdf.blocks[i].risk =
                            "Risk Level: " \o Column(data, "Risk Level").vals[i]

\* a finished report of an upload with an Average row and an At Risk row
C8_Witness ==
    /\ pdf.output
    /\ TierCount("Average") >= 1
    /\ TierCount("At Risk") >= 1

\* an error that halts the run: model loading or CSV reading failed
HaltingError ==
    \/ Shown("error", "Model files missing or corrupted.")
    \/ Shown("error", "Error reading CSV file.")

\* C9: errors are terminal and not retried: once model loading or CSV
\* reading has reported its error, no step of the run changes anything
\* any more (no alignment, prediction, classification, export or report,
\* and no second attempt of the failed step).
C9_ErrorsAreTerminal == [][HaltingError => UNCHANGED vars]_vars

\* the run stopped on a CSV read error, with nothing read
C9_Witness ==
    /\ pc = "stopped"
    /\ Shown("error", "Error reading CSV file.")
    /\ data = EmptyTable

\* the upload has no column already named like a trained one-hot feature
NoPreEncodedColumn ==
    \A k \in 1..Len(Parsed.columns) :
        Parsed.columns[k].dtype = "object"
            \/ Parsed.columns[k].name \notin Range(training_features)

\* C10: the aligned encoding of a row depends on the row alone: for every
\* trained one-hot feature col_level, the aligned value of a row is 1
\* exactly when the row's value in col is level, whatever the other rows.
C10_EncodingIsRowLocal ==
    (AtPredictor /\ UploadParsed /\ NoPreEncodedColumn) =>
        \A k \in CategoricalColumns(Parsed) :
            \A l \in LevelsTrainedFor(Parsed.columns[k]) :
                \A j \in Labelled(data, Parsed.columns[k].name \o "_" \o l) :
                    \A i \in 1..data.nrows :
                        data.columns[j].vals[i] = 1 <=> Parsed.columns[k].vals[i] = l

=============================================================================
